---- MODULE Spec2Model ----
(***************************************************************************)
(* A model of fs/log.go: the LogLevel type with its String/Set             *)
(* conversions, the logrus-backed logger built by init(), the text         *)
(* formatter MyJSONFormatter, LogPrintf with its field merging and level   *)
(* routing, the fallback LogPrint, and the level-filtered emitters         *)
(* LogLevelPrintf, Errorf, Logf, Infof and Debugf.                         *)
(*                                                                         *)
(* Text is modelled by TLA+ strings (concatenated with \o, measured with   *)
(* Len).  A format template is a sequence of tokens, each a literal or a   *)
(* verb ("%s", "%v").  The calls enumerated are the well-formed ones: the  *)
(* template holds one verb per variadic argument (log.go:143-145).         *)
(***************************************************************************)
EXTENDS Integers, Sequences, FiniteSets, TLC

VARIABLES
    Config,     \* the process-wide configuration read by this file
    logger,     \* var logger *logrus.Logger (log.go:48)
    call,       \* the emitter call the caller is about to make, with its arguments
    pc,         \* the caller's position: "pending" before the call, "done" after it
    calls,      \* how many times the call entered LogPrintf
    trace,      \* what the call did, in order: writes, outputs, exit, panic
    returned,   \* whether the call returned normally to its caller
    sets,       \* how many times LogLevel.Set has been called on Config.LogLevel
    setArg,     \* the argument of the last LogLevel.Set call
    setErr      \* the error the last LogLevel.Set call returned

vars == <<Config, logger, call, pc, calls, trace, returned, sets, setArg, setErr>>

\* Bound: the longest variadic argument list enumerated.
MaxArgs == 2

\* Bound: how many times Set is called in one behaviour.
MaxSets == 2

----------------------------------------------------------------------------
(* LogLevel and its conversions *)

LogLevelEmergency == 0
LogLevelAlert == 1
LogLevelCritical == 2
LogLevelError == 3
LogLevelWarning == 4
LogLevelNotice == 5
LogLevelInfo == 6
LogLevelDebug == 7

Levels == LogLevelEmergency..LogLevelDebug

\* logLevelToString[l] of the source is logLevelToString[l + 1] here.
logLevelToString ==
    <<"EMERGENCY", "ALERT", "CRITICAL", "ERROR", "WARNING", "NOTICE", "INFO", "DEBUG">>

Digits == <<"0", "1", "2", "3", "4", "5", "6", "7", "8", "9">>

RECURSIVE Itoa(_)
\* %d of a non-negative integer.
Itoa(n) == IF n < 10 THEN Digits[n + 1] ELSE Itoa(n \div 10) \o Digits[(n % 10) + 1]

\* func (l LogLevel) String() string
String(l) ==
    IF l >= Len(logLevelToString)
    THEN "LogLevel(" \o Itoa(l) \o ")"
    ELSE logLevelToString[l + 1]

\* The error value of errors.Errorf("Unknown log level %q", s).
NoError == [isNil |-> TRUE]
UnknownLogLevel(s) == [isNil |-> FALSE, msg |-> "Unknown log level \"" \o s \o "\""]

\* strings.EqualFold restricted to the spellings enumerated: the upper-case form.
Upper(s) ==
    CASE s \in {"error", "Error"} -> "ERROR"
      [] s \in {"debug", "Debug"} -> "DEBUG"
      [] s \in {"info", "Info"} -> "INFO"
      [] s \in {"notice", "Notice"} -> "NOTICE"
      [] s \in {"warning", "Warning"} -> "WARNING"
      [] s \in {"critical", "Critical"} -> "CRITICAL"
      [] s \in {"alert", "Alert"} -> "ALERT"
      [] s \in {"emergency", "Emergency"} -> "EMERGENCY"
      [] OTHER -> s

RECURSIVE SetFoldFrom(_, _, _)
\* Set with a case-insensitive comparison.
SetFoldFrom(n, l, s) ==
    IF n >= Len(logLevelToString) THEN [l |-> l, err |-> UnknownLogLevel(s)]
    ELSE IF s # "" /\ logLevelToString[n + 1] = Upper(s) THEN [l |-> n, err |-> NoError]
    ELSE SetFoldFrom(n + 1, l, s)

RECURSIVE SetFrom(_, _, _)
\* The loop of Set from index n on: l is the receiver's value, s the argument.
SetFrom(n, l, s) ==
    IF n >= Len(logLevelToString) THEN [l |-> l, err |-> UnknownLogLevel(s)]
    ELSE IF s # "" /\ logLevelToString[n + 1] = s THEN [l |-> n, err |-> NoError]
    ELSE SetFrom(n + 1, l, s)

\* Set matching names without regard to case.
SetFold(l, s) == SetFoldFrom(0, l, s)

\* func (l *LogLevel) Set(s string) error: the receiver's new value and the error.
Set(l, s) == SetFrom(0, l, s)

----------------------------------------------------------------------------
(* printf-style interpolation and Field Annotations *)

\* func LogValue(key string, value interface{}) LogValueItem
LogValue(key, value) == [kind |-> "LogValueItem", key |-> key, value |-> value]

\* An ordinary string argument.
Str(s) == [kind |-> "string", value |-> s]

\* LogValueItem.String returning "key=value".
ArgStringShown(arg) ==
    IF arg.kind = "LogValueItem" THEN arg.key \o "=" \o arg.value ELSE arg.value

\* What %s / %v print for an argument: func (j LogValueItem) String() string
\* returns "", a string prints as itself.
ArgString(arg) == IF arg.kind = "LogValueItem" THEN "" ELSE arg.value

Verbs == {"%s", "%v"}

RECURSIVE Sprintf(_, _)
\* fmt.Sprintf(text, args...): each verb consumes the next argument.
Sprintf(text, args) ==
    IF text = <<>> THEN ""
    ELSE IF Head(text) \in Verbs
         THEN (IF args = <<>> THEN "%!v(MISSING)" ELSE ArgString(Head(args)))
              \o Sprintf(Tail(text), IF args = <<>> THEN args ELSE Tail(args))
         ELSE Head(text) \o Sprintf(Tail(text), args)

----------------------------------------------------------------------------
(* The logrus logger and the text formatter *)

NilLogger == [isNil |-> TRUE]

\* The timestamp entry.Time.Format("2006-01-02 15:04:05") of the record at hand.
Now == "2026-11-02 04:18:00"

RECURSIVE Spaces(_)
Spaces(n) == IF n <= 0 THEN "" ELSE " " \o Spaces(n - 1)

\* %-6s: left-justified, padded with spaces to at least w, never truncated.
PadRight(s, w) == s \o Spaces(w - Len(s))

\* strings.ToUpper(entry.Level.String()) over logrus's level names.
UpperLevel(lvl) ==
    CASE lvl = "panic" -> "PANIC"
      [] lvl = "fatal" -> "FATAL"
      [] lvl = "error" -> "ERROR"
      [] lvl = "warning" -> "WARNING"
      [] lvl = "info" -> "INFO"
      [] lvl = "debug" -> "DEBUG"
      [] lvl = "trace" -> "TRACE"

\* The switch on entry.Level that picks the colour.
LevelColor(lvl) ==
    CASE lvl \in {"debug", "trace"} -> 34
      [] lvl = "warning" -> 33
      [] lvl \in {"error", "fatal", "panic"} -> 31
      [] OTHER -> 36

Esc == "<ESC>"

\* func (f *MyJSONFormatter) Format(entry *logrus.Entry) ([]byte, error)
Format(f, entry) ==
    IF f.DisableColors
    THEN entry.Time \o " " \o PadRight(UpperLevel(entry.Level), 6) \o " : "
         \o entry.Message \o "\n"
    ELSE entry.Time \o " " \o Esc \o "[" \o Itoa(LevelColor(entry.Level)) \o "m"
         \o PadRight(UpperLevel(entry.Level), 6) \o Esc \o "[0m" \o " : "
         \o entry.Message \o "\n"

\* The logger init() builds from the configuration c.
NewLogger(c) ==
    IF c.UseJSONLog
    THEN [isNil |-> FALSE, Formatter |-> "JSONFormatter", DisableColors |-> FALSE]
    ELSE [isNil |-> FALSE, Formatter |-> "MyJSONFormatter",
          DisableColors |-> ~c.EnableLogColors]

\* What the logger writes to its Out for an entry: the text formatter's line, or
\* the JSON formatter's record of time, level, message and data fields.
Render(lg, entry) ==
    IF lg.Formatter = "JSONFormatter"
    THEN [format |-> "json", time |-> entry.Time, level |-> entry.Level,
          msg |-> entry.Message, data |-> entry.Data]
    ELSE [format |-> "text", text |-> Format(lg, entry)]

----------------------------------------------------------------------------
(* LogPrintf and the fallback printer *)

NilSubject == [isNil |-> TRUE, str |-> "<nil>", typ |-> "<nil>"]

\* The empty logrus.Fields{}.
NoFields == [k \in {} |-> ""]

\* m with key k set to v: fields[k] = v.
Put(m, k, v) == [x \in DOMAIN m \cup {k} |-> IF x = k THEN v ELSE m[x]]

RECURSIVE Merge(_, _)
\* for _, arg := range args: every LogValueItem is stored under its key, in order.
Merge(fields, args) ==
    IF args = <<>> THEN fields
    ELSE Merge(IF Head(args).kind = "LogValueItem"
               THEN Put(fields, Head(args).key, Head(args).value)
               ELSE fields,
               Tail(args))

\* The subject's fields: "%+v" and "%T" of o.
SubjectFields(o) ==
    IF ~o.isNil THEN Put(Put(NoFields, "object", o.str), "objectType", o.typ)
    ELSE NoFields

\* Fields in which the subject is stored after the items.
FieldsSubjectLast(o, args) ==
    LET items == Merge(NoFields, args) IN
    IF ~o.isNil THEN Put(Put(items, "object", o.str), "objectType", o.typ) ELSE items

\* The field mapping LogPrintf hands to the backend.
Fields(o, args) == Merge(SubjectFields(o), args)

\* fmt.Sprintf("%v: %s", o, out)
Prefixed(o, out) == o.str \o ": " \o out

\* The message handed to the backend: prefixed unless Config.UseJSONLog.
Message(o, out) == IF ~Config.UseJSONLog THEN Prefixed(o, out) ELSE out

\* Routing with Critical sent to Error.
BackendLevelNoFatal(level) ==
    CASE level = LogLevelDebug -> "debug"
      [] level = LogLevelInfo -> "info"
      [] level \in {LogLevelNotice, LogLevelWarning} -> "warning"
      [] level \in {LogLevelError, LogLevelCritical} -> "error"
      [] level \in {LogLevelEmergency, LogLevelAlert} -> "panic"
      [] OTHER -> "none"

\* Routing with Notice sent to Info.
BackendLevelNotice(level) ==
    CASE level = LogLevelDebug -> "debug"
      [] level \in {LogLevelInfo, LogLevelNotice} -> "info"
      [] level = LogLevelWarning -> "warning"
      [] level = LogLevelError -> "error"
      [] level = LogLevelCritical -> "fatal"
      [] level \in {LogLevelEmergency, LogLevelAlert} -> "panic"
      [] OTHER -> "none"

\* switch level: the logrus call LogPrintf makes, "none" when no case matches.
BackendLevel(level) ==
    CASE level = LogLevelDebug -> "debug"
      [] level = LogLevelInfo -> "info"
      [] level \in {LogLevelNotice, LogLevelWarning} -> "warning"
      [] level = LogLevelError -> "error"
      [] level = LogLevelCritical -> "fatal"
      [] level \in {LogLevelEmergency, LogLevelAlert} -> "panic"
      [] OTHER -> "none"

\* logger.WithFields(fields).Debug/Info/Warn/Error/Fatal/Panic(out): the logger's
\* own level is DebugLevel, so the entry is always written; Fatal then exits the
\* process and Panic then panics.
BackendCall(lvl, fields, msg) ==
    LET entry == [Time |-> Now, Level |-> lvl, Message |-> msg, Data |-> fields]
        write == [ev |-> "write", entry |-> entry, line |-> Render(logger, entry)]
    IN  CASE lvl = "none" -> [trace |-> <<>>, returned |-> TRUE]
          [] lvl = "fatal" -> [trace |-> <<write, [ev |-> "exit"]>>, returned |-> FALSE]
          [] lvl = "panic" -> [trace |-> <<write, [ev |-> "panic"]>>, returned |-> FALSE]
          [] OTHER -> [trace |-> <<write>>, returned |-> TRUE]

\* LogPrint without the padding of the level name.
LogPrintNoPad(level, text) ==
    [trace |-> <<[ev |-> "output", calldepth |-> 4, text |-> String(level) \o ": " \o text]>>,
     returned |-> TRUE]

\* var LogPrint = func(level LogLevel, text string)
LogPrint(level, text) ==
    [trace |-> <<[ev |-> "output", calldepth |-> 4,
                  text |-> PadRight(String(level), 6) \o ": " \o text]>>,
     returned |-> TRUE]

\* func LogPrintf(level LogLevel, o interface{}, text string, args ...interface{})
LogPrintf(level, o, text, args) ==
    LET out == Sprintf(text, args) IN
    IF ~logger.isNil
    THEN BackendCall(BackendLevel(level), Fields(o, args), Message(o, out))
    ELSE LogPrint(level, IF ~o.isNil THEN Prefixed(o, out) ELSE out)

\* The comparison turned round.
PassesInverted(threshold, level) == threshold <= level

\* Config.LogLevel >= level
Passes(threshold, level) == threshold >= level

\* A call that does not reach LogPrintf does nothing and returns.
Skipped == [trace |-> <<>>, returned |-> TRUE]

----------------------------------------------------------------------------
(* The inputs *)

Subjects == {NilSubject, [isNil |-> FALSE, str |-> "file.txt", typ |-> "string"]}

ArgVals ==
    {Str("a"), LogValue("bytes", "1024"), LogValue("bytes", "2048"), LogValue("object", "x")}

ArgLists == UNION {[1..n -> ArgVals] : n \in 0..MaxArgs}

\* A template with one verb for each of n arguments.
Template(n) == <<"copied">> \o [i \in 1..n |-> IF i % 2 = 1 THEN "%s" ELSE "%v"]

Wrappers == {"Errorf", "Logf", "Infof", "Debugf"}

Calls ==
    {[op |-> op, level |-> l, o |-> o, text |-> Template(Len(a)), args |-> a] :
        op \in {"LogPrintf", "LogLevelPrintf"}, l \in Levels, o \in Subjects, a \in ArgLists}
    \cup
    {[op |-> op, o |-> o, text |-> Template(Len(a)), args |-> a] :
        op \in Wrappers, o \in Subjects, a \in ArgLists}

Configs == [LogLevel : Levels, UseJSONLog : BOOLEAN, EnableLogColors : BOOLEAN]

\* The strings handed to Set: every String(l), other spellings, and the empty string.
LevelStrings ==
    {String(l) : l \in 0..(Len(logLevelToString) + 1)}
    \cup {"", "error", "Error", "debug", "Debug", "info", "Info", "notice", "Notice",
          "warning", "Warning", "critical", "alert", "emergency", "WARN", "FATAL",
          "ERROR ", " ERROR", "ERR"}

----------------------------------------------------------------------------
(* The state machine *)

\* Before init() has run: logger is nil, the caller holds a call to make.
Init ==
    /\ Config \in Configs
    /\ logger = NilLogger
    /\ call \in Calls
    /\ pc = "pending"
    /\ calls = 0
    /\ trace = <<>>
    /\ returned = FALSE
    /\ sets = 0
    /\ setArg = ""
    /\ setErr = NoError

\* func init()
init ==
    /\ pc = "pending"
    /\ logger.isNil
    /\ logger' = NewLogger(Config)
    /\ UNCHANGED <<Config, call, pc, calls, trace, returned, sets, setArg, setErr>>

\* The configuration is written from outside this file, one field at a time.
SetConfig ==
    /\ pc = "pending"
    /\ \/ \E l \in Levels : Config' = [Config EXCEPT !.LogLevel = l]
       \/ Config' = [Config EXCEPT !.UseJSONLog = ~@]
       \/ Config' = [Config EXCEPT !.EnableLogColors = ~@]
    /\ Config' # Config
    /\ UNCHANGED <<logger, call, pc, calls, trace, returned, sets, setArg, setErr>>

\* The call's effect r is recorded and the caller moves on.
Finish(n, r) ==
    /\ pc' = "done"
    /\ calls' = n
    /\ trace' = r.trace
    /\ returned' = r.returned
    /\ UNCHANGED <<Config, logger, call, sets, setArg, setErr>>

CallLogPrintf ==
    /\ pc = "pending"
    /\ call.op = "LogPrintf"
    /\ Finish(1, LogPrintf(call.level, call.o, call.text, call.args))

\* func LogLevelPrintf(level LogLevel, o interface{}, text string, args ...interface{})
LogLevelPrintf ==
    /\ pc = "pending"
    /\ call.op = "LogLevelPrintf"
    /\ IF Passes(Config.LogLevel, call.level)
       THEN Finish(1, LogPrintf(call.level, call.o, call.text, call.args))
       ELSE Finish(0, Skipped)

\* func Errorf(o interface{}, text string, args ...interface{})
Errorf ==
    /\ pc = "pending"
    /\ call.op = "Errorf"
    /\ IF Passes(Config.LogLevel, LogLevelError)
       THEN Finish(1, LogPrintf(LogLevelError, call.o, call.text, call.args))
       ELSE Finish(0, Skipped)

\* func Logf(o interface{}, text string, args ...interface{})
Logf ==
    /\ pc = "pending"
    /\ call.op = "Logf"
    /\ IF Passes(Config.LogLevel, LogLevelNotice)
       THEN Finish(1, LogPrintf(LogLevelNotice, call.o, call.text, call.args))
       ELSE Finish(0, Skipped)

\* func Infof(o interface{}, text string, args ...interface{})
Infof ==
    /\ pc = "pending"
    /\ call.op = "Infof"
    /\ IF Passes(Config.LogLevel, LogLevelInfo)
       THEN Finish(1, LogPrintf(LogLevelInfo, call.o, call.text, call.args))
       ELSE Finish(0, Skipped)

\* func Debugf(o interface{}, text string, args ...interface{})
Debugf ==
    /\ pc = "pending"
    /\ call.op = "Debugf"
    /\ IF Passes(Config.LogLevel, LogLevelDebug)
       THEN Finish(1, LogPrintf(LogLevelDebug, call.o, call.text, call.args))
       ELSE Finish(0, Skipped)

Next ==
    \/ init
    \/ SetConfig
    \/ CallLogPrintf
    \/ LogLevelPrintf
    \/ Errorf
    \/ Logf
    \/ Infof
    \/ Debugf

Spec == Init /\ [][Next]_vars

----------------------------------------------------------------------------
(* LogLevel.Set on its own: the level flag is parsed into Config.LogLevel *)

InitLevel ==
    /\ Config \in Configs
    /\ logger = NilLogger
    /\ call = [op |-> "Errorf", o |-> NilSubject, text |-> Template(0), args |-> <<>>]
    /\ pc = "pending"
    /\ calls = 0
    /\ trace = <<>>
    /\ returned = FALSE
    /\ sets = 0
    /\ setArg = ""
    /\ setErr = NoError

\* Config.LogLevel.Set(s)
SetLevel ==
    /\ sets < MaxSets
    /\ \E s \in LevelStrings :
          LET r == Set(Config.LogLevel, s) IN
          /\ Config' = [Config EXCEPT !.LogLevel = r.l]
          /\ setArg' = s
          /\ setErr' = r.err
    /\ sets' = sets + 1
    /\ UNCHANGED <<logger, call, pc, calls, trace, returned>>

NextLevel == SetLevel

SpecLevel == InitLevel /\ [][NextLevel]_vars

----------------------------------------------------------------------------
(* What the properties below compare the model with *)

Done == pc = "done"

\* The level a call logs at: the wrappers' fixed levels, by rank.
EffLevel ==
    CASE call.op = "Errorf" -> 3
      [] call.op = "Logf" -> 5
      [] call.op = "Infof" -> 6
      [] call.op = "Debugf" -> 7
      [] OTHER -> call.level

RECURSIVE PlainArgs(_)
\* The string arguments of a call, in order, Field Annotations left out.
PlainArgs(args) ==
    IF args = <<>> THEN ""
    ELSE (IF Head(args).kind = "string" THEN Head(args).value ELSE "") \o PlainArgs(Tail(args))

\* The interpolated message of the call, every annotation rendered as "".
ExpectedText == "copied" \o PlainArgs(call.args)

ExpectedPrefixed == call.o.str \o ": " \o ExpectedText

\* The canonical names padded to width 6, by rank.
PaddedName ==
    <<"EMERGENCY", "ALERT ", "CRITICAL", "ERROR ", "WARNING", "NOTICE", "INFO  ", "DEBUG ">>

\* The routing table, by rank.
RoutingTable ==
    <<"panic", "panic", "fatal", "error", "warning", "warning", "info", "debug">>

\* The value of the last annotation of args with key k.
LastValue(args, k) ==
    LET at == {i \in 1..Len(args) : args[i].kind = "LogValueItem" /\ args[i].key = k}
        last == CHOOSE i \in at : \A j \in at : j <= i
    IN  args[last].value

HasKey(args, k) == \E i \in 1..Len(args) : args[i].kind = "LogValueItem" /\ args[i].key = k

Emitted == {i \in 1..Len(trace) : trace[i].ev \in {"write", "output"}}

C2_ErrorfAlwaysSeen == (Done /\ call.op = "Errorf") => Emitted # {}

\* C3: through the logger, a record at Critical is written and then the process
\* exits; a record at Emergency or Alert is written and then the call panics;
\* in both the write comes first and the call does not return normally.
C3_LogThenTerminate ==
    (Done /\ calls = 1 /\ ~logger.isNil /\ EffLevel <= 2) =>
        /\ Len(trace) = 2
        /\ trace[1].ev = "write"
        /\ trace[2].ev = IF EffLevel = 2 THEN "exit" ELSE "panic"
        /\ ~returned

C3_Witness ==
    /\ Done
    /\ ~logger.isNil
    /\ call.op = "LogLevelPrintf"
    /\ call.level = LogLevelCritical
    /\ Len(trace) = 2
    /\ trace[2].ev = "exit"

\* C4: with the logger present LogPrintf makes exactly one backend call at every
\* level, the one the routing table names, whatever the threshold is.
C4_RoutingTable ==
    (Done /\ call.op = "LogPrintf" /\ ~logger.isNil) =>
        /\ calls = 1
        /\ Cardinality({i \in 1..Len(trace) : trace[i].ev = "write"}) = 1
        /\ trace[1].ev = "write"
        /\ trace[1].entry.Level = RoutingTable[call.level + 1]

C4_Witness ==
    /\ Done
    /\ call.op = "LogPrintf"
    /\ ~logger.isNil
    /\ call.level = LogLevelDebug
    /\ Config.LogLevel = LogLevelEmergency
    /\ Len(trace) = 1
    /\ trace[1].entry.Level = "debug"

\* The line the fallback printer writes for the call.
FallbackLine ==
    PaddedName[EffLevel + 1] \o ": "
    \o (IF call.o.isNil THEN ExpectedText ELSE ExpectedPrefixed)

\* C5 as stated: with the logger nil, any leveled call writes exactly one line
\* "<level name padded to 6>: <message>" on the basic stream and returns.
C5_AnyCallOneLine ==
    (Done /\ logger.isNil) =>
        /\ trace = <<[ev |-> "output", calldepth |-> 4, text |-> FallbackLine]>>
        /\ returned

\* C5 amended: with the logger nil, a call that reaches LogPrintf (LogPrintf
\* itself, or a filtered emitter whose level passes the threshold) writes exactly
\* one such line and returns at every level; a filtered emitter whose level does
\* not pass the threshold writes nothing.
C5_ReachedCallOneLine ==
    (Done /\ logger.isNil) =>
        /\ returned
        /\ IF call.op = "LogPrintf" \/ Config.LogLevel >= EffLevel
           THEN trace = <<[ev |-> "output", calldepth |-> 4, text |-> FallbackLine]>>
           ELSE trace = <<>>

C5_Witness ==
    /\ Done
    /\ logger.isNil
    /\ call.op = "LogPrintf"
    /\ call.level = LogLevelCritical
    /\ ~call.o.isNil
    /\ Len(trace) = 1
    /\ trace[1].ev = "output"
    /\ returned

\* C6: Set(String(L)) succeeds and stores L for each of the 8 levels, and Set of
\* any other string (the empty one and other spellings included) returns the
\* "Unknown log level" error.
C6_SetInvertsString ==
    sets > 0 =>
        /\ \A L \in 0..7 : setArg = String(L) => (setErr = NoError /\ Config.LogLevel = L)
        /\ setArg \notin {"EMERGENCY", "ALERT", "CRITICAL", "ERROR", "WARNING", "NOTICE",
                          "INFO", "DEBUG"}
              => (~setErr.isNil /\ setErr.msg = "Unknown log level \"" \o setArg \o "\"")

C6_Witness ==
    /\ sets = 2
    /\ setArg = "NOTICE"
    /\ setErr = NoError
    /\ Config.LogLevel = LogLevelNotice

\* The text formatter's line for a level and a message, by backend level.
ExpectedLine(lvl, msg, colors) ==
    LET field == CASE lvl = "panic" -> "PANIC "
                   [] lvl = "fatal" -> "FATAL "
                   [] lvl = "error" -> "ERROR "
                   [] lvl = "warning" -> "WARNING"
                   [] lvl = "info" -> "INFO  "
                   [] lvl = "debug" -> "DEBUG "
        code == CASE lvl = "debug" -> "34"
                  [] lvl = "warning" -> "33"
                  [] lvl \in {"error", "fatal", "panic"} -> "31"
                  [] lvl = "info" -> "36"
    IN  IF colors
        THEN Now \o " " \o Esc \o "[" \o code \o "m" \o field \o Esc \o "[0m" \o " : "
             \o msg \o "\n"
        ELSE Now \o " " \o field \o " : " \o msg \o "\n"

\* C7: in every call that reaches LogPrintf, each Field Annotation renders as ""
\* in the interpolated message; through the logger each annotation's key maps to
\* the value of the last annotation with that key, and the text formatter's line
\* holds the timestamp, the level and the message only.
C7_Annotations ==
    (Done /\ calls = 1) =>
        IF logger.isNil
        THEN trace[1].text = FallbackLine
        ELSE LET e == trace[1].entry IN
             /\ e.Message = IF Config.UseJSONLog THEN ExpectedText ELSE ExpectedPrefixed
             /\ \A i \in 1..Len(call.args) :
                   call.args[i].kind = "LogValueItem" =>
                      /\ call.args[i].key \in DOMAIN e.Data
                      /\ e.Data[call.args[i].key] = LastValue(call.args, call.args[i].key)
             /\ logger.Formatter = "MyJSONFormatter" =>
                   /\ trace[1].line.format = "text"
                   /\ trace[1].line.text =
                         ExpectedLine(e.Level, e.Message, ~logger.DisableColors)

C7_Witness ==
    /\ Done
    /\ calls = 1
    /\ ~logger.isNil
    /\ logger.Formatter = "MyJSONFormatter"
    /\ call.args = <<LogValue("bytes", "1024"), LogValue("bytes", "2048")>>
    /\ trace[1].entry.Data["bytes"] = "2048"
    /\ trace[1].entry.Message = "file.txt: copied"

\* C8 as stated: through the logger with a subject, the message is
\* "<subject>: <message>" when Config.UseJSONLog is off; when it is on the message
\* has no prefix and the fields hold the subject's string under "object" and its
\* type under "objectType", whatever the annotations of the call.
C8_SubjectFieldsAlways ==
    (Done /\ calls = 1 /\ ~logger.isNil /\ ~call.o.isNil) =>
        LET e == trace[1].entry IN
        IF ~Config.UseJSONLog
        THEN e.Message = ExpectedPrefixed
        ELSE /\ e.Message = ExpectedText
             /\ "object" \in DOMAIN e.Data /\ e.Data["object"] = call.o.str
             /\ "objectType" \in DOMAIN e.Data /\ e.Data["objectType"] = call.o.typ

\* C8 amended: as stated, except that an annotation of the same call whose key is
\* "object" or "objectType" replaces the subject's field of that key (the last
\* such annotation's value is stored).
C8_SubjectFields ==
    (Done /\ calls = 1 /\ ~logger.isNil /\ ~call.o.isNil) =>
        LET e == trace[1].entry IN
        IF ~Config.UseJSONLog
        THEN e.Message = ExpectedPrefixed
        ELSE /\ e.Message = ExpectedText
             /\ "object" \in DOMAIN e.Data
             /\ e.Data["object"] = IF HasKey(call.args, "object")
                                   THEN LastValue(call.args, "object") ELSE call.o.str
             /\ "objectType" \in DOMAIN e.Data
             /\ e.Data["objectType"] = IF HasKey(call.args, "objectType")
                                       THEN LastValue(call.args, "objectType")
                                       ELSE call.o.typ

C8_Witness ==
    /\ Done
    /\ calls = 1
    /\ ~logger.isNil
    /\ ~call.o.isNil
    /\ Config.UseJSONLog
    /\ call.args = <<LogValue("bytes", "1024"), LogValue("object", "x")>>
    /\ trace[1].entry.Data["object"] = "x"
    /\ trace[1].entry.Data["objectType"] = "string"
    /\ trace[1].entry.Message = "copied"

\* The length of the colour escapes around the level field.
EscapesLen == Len(Esc \o "[" \o "00" \o "m") + Len(Esc \o "[0m")

\* C9: the text formatter's line is "<timestamp> <LEVEL> : <message>" with the
\* level field exactly 6 wide at every level, so the " : " separator stands at
\* the same column; the colour escapes are present only when colours are enabled.
C9_FixedWidthLevel ==
    (Done /\ calls = 1 /\ ~logger.isNil /\ logger.Formatter = "MyJSONFormatter") =>
        Len(trace[1].line.text) =
            Len(Now) + 1 + (IF logger.DisableColors THEN 0 ELSE EscapesLen) + 6 + 3
            + Len(trace[1].entry.Message) + 1

\* C10: the subject is prepended to the message exactly when the logger's
\* formatter is the text formatter, and left out exactly when it is the JSON one.
C10_PrefixAgreesWithFormatter ==
    (Done /\ calls = 1 /\ ~logger.isNil) =>
        /\ (trace[1].entry.Message = ExpectedPrefixed) <=> (logger.Formatter = "MyJSONFormatter")
        /\ (trace[1].entry.Message = ExpectedText) <=> (logger.Formatter = "JSONFormatter")

====
